---- MODULE Spec2Model ----
(***************************************************************************)
(* The conversational recommendation pipeline of src/app.py: the /chat     *)
(* route, the enrichment fan-out _fetch_visual_recommendations and the     *)
(* resolver _search_and_extract_movie.  One behaviour is one /chat         *)
(* request, from the arrival of the request to the response.               *)
(*                                                                         *)
(* Text is a sequence of tokens: "{" and "}" are the two delimiters the    *)
(* route scans for, "w" is a word of prose, " " is whitespace and "b" is   *)
(* the member list of a JSON object (its values are carried next to the    *)
(* text).  A JSON value is a record [t, items]; list elements, characters  *)
(* and keys are strings, and "#7" stands for an element that is a number.  *)
(***************************************************************************)
EXTENDS Integers, Sequences, FiniteSets, TLC

VARIABLES configured, req, pc, prompt, modelCalls, response_text,
          response_data, calls, collected, visual_recommendations,
          enrichPc, raised, outbound, resp

vars == <<configured, req, pc, prompt, modelCalls, response_text,
          response_data, calls, collected, visual_recommendations,
          enrichPc, raised, outbound, resp>>

(* ------------------------------ bounds -------------------------------- *)

\* longest raw model text, in tokens
MaxText == 4

\* longest recommended_movies list a model reply carries in a /chat request
MaxNames == 1

\* longest names list of an enrichment call explored with every combination of names
ShortLen == 2

\* length of the one long names list (more names than workers)
LongLen == 6

(* ---------------------------- constants ------------------------------- *)

\* ThreadPoolExecutor(max_workers=5)
MaxWorkers == 5

NotConfiguredMsg == "AI model is not configured."

GenericMsg == "Sorry, I'm having trouble thinking right now."

ApologyMsg == "Sorry, I got a little confused. Could you rephrase that?"

(* ---------------------------- JSON values ----------------------------- *)

JMissing == [t |-> "missing", items |-> <<>>]

JNull == [t |-> "null", items |-> <<>>]

JStr(s) == [t |-> "str", items |-> s]

JDict(keys) == [t |-> "dict", items |-> keys]

JList(l) == [t |-> "list", items |-> l]

\* Python truth value of a JSON value
Truthy(v) == v.t \in {"str", "dict", "list"} /\ v.items # <<>>

\* isinstance(v, list)
IsList(v) == v.t = "list"

\* isinstance(name, str): "#7" is the number 7
IsStr(name) == name # "#7"

RECURSIVE SeqsUpTo(_, _)
SeqsUpTo(S, n) ==
    IF n = 0 THEN {<<>>}
    ELSE LET shorter == SeqsUpTo(S, n - 1)
         IN  shorter \cup {Append(s, x) : s \in {q \in shorter : Len(q) = n - 1}, x \in S}

(* ------------------------------ resolver ------------------------------ *)

None == [kind |-> "none", imdb_id |-> "", title |-> "", poster_path |-> "", exc |-> ""]

MovieRef(id, title, poster) ==
    [kind |-> "ref", imdb_id |-> id, title |-> title, poster_path |-> poster, exc |-> ""]

Raised(e) == [kind |-> "raise", imdb_id |-> "", title |-> "", poster_path |-> "", exc |-> e]

\* the titles the catalogue of the search upstream holds ("C" is a title it does not hold)
Catalogue == {"A", "B"}

\* the catalogue identifier the search upstream holds for a title
IdOf(name) == IF name = "A" THEN "ttA" ELSE "ttB"

\* what the search upstream can answer to one GET for `name`:
\* net is the transport outcome, body the decoded JSON of a 2xx answer
\* (t its type, n its length, first its element 0)
Hit(name, id) == [t |-> "obj", imdb_id |-> id, title |-> name, poster_path |-> "/p.jpg"]

NoFirst == [t |-> "none", imdb_id |-> "missing", title |-> "", poster_path |-> ""]

StrFirst == [t |-> "str", imdb_id |-> "missing", title |-> "", poster_path |-> ""]

Bodies(name) ==
    IF name \notin Catalogue THEN {[t |-> "list", n |-> 0, first |-> NoFirst]}
    ELSE
    {[t |-> "list", n |-> 1, first |-> Hit(name, id)] : id \in {IdOf(name), "", "missing"}}
    \cup {[t |-> "list", n |-> 1, first |-> StrFirst],
          [t |-> "list", n |-> 0, first |-> NoFirst],
          [t |-> "dict", n |-> 0, first |-> NoFirst],
          [t |-> "dict", n |-> 1, first |-> NoFirst],
          [t |-> "null", n |-> 0, first |-> NoFirst],
          [t |-> "number", n |-> 1, first |-> NoFirst]}

Upstreams(name) ==
    {[net |-> "ok", body |-> b] : b \in Bodies(name)}
    \cup {[net |-> e, body |-> [t |-> "null", n |-> 0, first |-> NoFirst]] :
             e \in {"ConnectionError", "HTTPError", "InvalidJSON"}}

\* `data and data[0].get("imdb_id")`, then the returned dict
ExtractFirst(data) ==
    IF data.n = 0 \/ data.t = "null" THEN None
    ELSE IF data.t = "dict" THEN Raised("KeyError")
    ELSE IF data.t = "number" THEN Raised("TypeError")
    ELSE IF data.first.t # "obj" THEN Raised("AttributeError")
    ELSE IF data.first.imdb_id \in {"missing", ""} THEN None
    ELSE MovieRef(data.first.imdb_id, data.first.title, data.first.poster_path)

\* only requests.exceptions.RequestException is caught
_search_and_extract_movie(movie_name, up) ==
    IF ~IsStr(movie_name) THEN Raised("TypeError")
    ELSE IF up.net # "ok" THEN None
    ELSE ExtractFirst(up.body)

\* the GET is sent unless quote_plus raised first
SendsRequest(movie_name) == IsStr(movie_name)

(* ------------------------- text of the model -------------------------- *)

Tokens == {"{", "}", "w", "b", " "}

Texts == SeqsUpTo(Tokens, MaxText)

\* str.find: 0-based index of the first ch, -1 when there is none
Find(text, ch) ==
    IF \E i \in 1..Len(text) : text[i] = ch
    THEN (CHOOSE i \in 1..Len(text) : text[i] = ch /\ \A j \in 1..(i - 1) : text[j] # ch) - 1
    ELSE -1

\* str.rfind: 0-based index of the last ch, -1 when there is none
RFind(text, ch) ==
    IF \E i \in 1..Len(text) : text[i] = ch
    THEN (CHOOSE i \in 1..Len(text) : text[i] = ch /\ \A j \in (i + 1)..Len(text) : text[j] # ch) - 1
    ELSE -1

\* text[lo:hi] for 0 <= lo, 0 <= hi
Slice(text, lo, hi) == SubSeq(text, lo + 1, IF hi > Len(text) THEN Len(text) ELSE hi)

\* str.strip
Strip(text) ==
    IF \A i \in 1..Len(text) : text[i] = " " THEN <<>>
    ELSE LET lo == CHOOSE i \in 1..Len(text) : text[i] # " " /\ \A j \in 1..(i - 1) : text[j] = " "
             hi == CHOOSE i \in 1..Len(text) : text[i] # " " /\ \A j \in (i + 1)..Len(text) : text[j] = " "
         IN  SubSeq(text, lo, hi)

\* the members a model reply can carry in its JSON object
NameVals == {"A", "B", "#7"}

\* one title of the catalogue, then titles it does not hold
LongList == [i \in 1..LongLen |-> IF i = 1 THEN "A" ELSE "C"]

\* the names lists of the enrichment calls explored on their own
EnrichLists == (SeqsUpTo(NameVals, ShortLen) \ {<<>>}) \cup {LongList}

MovieValues ==
    {JMissing, JNull, JStr(<<"A", "B">>), JStr(<<>>), JDict(<<"A">>), JDict(<<>>)}
    \cup {JList(l) : l \in SeqsUpTo({"A", "#7"}, MaxNames)}

Members ==
    [reply_to_user : {"str"}, context : {"missing", "str", "null"},
     recommended_movies : MovieValues]

EmptyObject == [reply_to_user |-> "missing", context |-> "missing", recommended_movies |-> JMissing]

\* json.loads: an object is "{", members and whitespace, "}"
JsonParses(json_string) ==
    /\ Len(json_string) >= 2
    /\ json_string[1] = "{"
    /\ json_string[Len(json_string)] = "}"
    /\ \A i \in 2..(Len(json_string) - 1) : json_string[i] \in {"b", " "}

JsonLoads(json_string, members) ==
    IF \E i \in 1..Len(json_string) : json_string[i] = "b" THEN members ELSE EmptyObject

\* lines 386-397: the exception the extraction raises, "" when it parses
ExtractError(raw) ==
    LET text == Strip(raw)
        start_index == Find(text, "{")
        end_index == RFind(text, "}")
    IN  IF start_index = -1 \/ end_index = -1 THEN "JSONDecodeError"
        ELSE IF ~JsonParses(Strip(Slice(text, start_index, end_index + 1))) THEN "JSONDecodeError"
        ELSE ""

ExtractData(raw, members) ==
    LET text == Strip(raw)
    IN  JsonLoads(Strip(Slice(text, Find(text, "{"), RFind(text, "}") + 1)), members)

\* response_text before line 386 assigns it
Unbound == <<"unbound">>

MalformedTexts == {raw \in Texts : ExtractError(raw) # ""}

ParsingTexts == {raw \in Texts : ExtractError(raw) = ""}

(* ----------------------------- responses ------------------------------ *)

NoResp == [status |-> 0, kind |-> "none", msg |-> "", data |-> EmptyObject, visual |-> <<>>]

Enriched(data, visual) ==
    [status |-> 200, kind |-> "enriched", msg |-> "", data |-> data, visual |-> visual]

Apology == [status |-> 200, kind |-> "apology", msg |-> ApologyMsg, data |-> EmptyObject, visual |-> <<>>]

ErrorResp(m) == [status |-> 500, kind |-> "error", msg |-> m, data |-> EmptyObject, visual |-> <<>>]

\* the catch-all alone: every exception answers 500
ChatExcept_NoSoftFailure(exc) == ErrorResp(GenericMsg)

\* the catch-all sending str(e) to the client
ChatExcept_Leaky(exc) == IF exc = "JSONDecodeError" THEN Apology ELSE ErrorResp(exc)

\* the two except clauses of chat
ChatExcept(exc) == IF exc = "JSONDecodeError" THEN Apology ELSE ErrorResp(GenericMsg)

\* the keys of the JSON body sent to the client
BodyKeys(r) ==
    IF r.kind = "error" THEN {"error"}
    ELSE IF r.kind = "apology" THEN {"reply_to_user"}
    ELSE IF r.kind = "enriched"
    THEN {"visual_recommendations"}
         \cup (IF r.data.reply_to_user # "missing" THEN {"reply_to_user"} ELSE {})
         \cup (IF r.data.context # "missing" THEN {"context"} ELSE {})
         \cup (IF r.data.recommended_movies.t # "missing" THEN {"recommended_movies"} ELSE {})
    ELSE {}

(* ------------------------------ requests ------------------------------ *)

Requests ==
    {[kind |-> "ok", message |-> "hi", context |-> c] : c \in {"", "c"}}
    \cup {[kind |-> "no_message", message |-> "", context |-> ""],
          [kind |-> "not_json", message |-> "", context |-> ""]}

\* lines 372-382: the exception raised before the model is called
RequestError(r) ==
    IF r.kind = "not_json" THEN "BadRequest"
    ELSE IF r.kind = "no_message" THEN "TypeError"
    ELSE ""

\* lines 376-379
BuildPrompt(user_message, context) ==
    IF context = "" THEN <<"SYSTEM_PROMPT", "User", user_message>>
    ELSE <<"SYSTEM_PROMPT", "Previous Context", context, "User", user_message>>

ModelErrors == {"GoogleAPIError", "ValueError"}

(* --------------------------- the worker pool --------------------------- *)

\* executor.submit(_search_and_extract_movie, name) for name in movie_names
Submit(movie_names) ==
    [i \in 1..Len(movie_names.items) |->
        [name |-> movie_names.items[i], st |-> "pending", result |-> None, attempts |-> 0]]

Pending == {i \in 1..Len(calls) : calls[i].st = "pending"}

\* calls a worker thread is executing; "stalled" is a call whose upstream never answers
InFlight == {i \in 1..Len(calls) : calls[i].st \in {"running", "stalled"}}

Done == {i \in 1..Len(calls) : calls[i].st = "done"}

\* a pool without a ceiling: one thread per submitted call
WorkerFree_Unbounded == TRUE

\* max_workers: a work item is taken only by one of the 5 threads
WorkerFree == Cardinality(InFlight) < MaxWorkers

\* executor.shutdown(wait=False)
PoolDrained_NoWait == TRUE

\* the exit of the with block: executor.shutdown(wait=True)
PoolDrained == \A i \in 1..Len(calls) : calls[i].st = "done"

\* `if not movie_names:` alone
EarlyReturn_EmptyOnly(movie_names) == ~Truthy(movie_names)

\* line 163
EarlyReturn(movie_names) == ~Truthy(movie_names) \/ ~IsList(movie_names)

\* every result appended, absent ones included
Keep_All(movie_data) == TRUE

\* line 173: `if movie_data:`
Keep(movie_data) == movie_data.kind = "ref"

(* ------------------------------- actions ------------------------------- *)

Init ==
    /\ configured \in BOOLEAN
    /\ req \in Requests
    /\ pc = "start"
    /\ prompt = <<>>
    /\ modelCalls = 0
    /\ response_text = Unbound
    /\ response_data = EmptyObject
    /\ calls = <<>>
    /\ collected = {}
    /\ visual_recommendations = <<>>
    /\ enrichPc = "none"
    /\ raised = ""
    /\ outbound = 0
    /\ resp = NoResp

\* lines 368-384: up to the call of the model
ChatBegin ==
    /\ pc = "start"
    /\ IF ~configured
       THEN /\ resp' = ErrorResp(NotConfiguredMsg)
            /\ pc' = "done"
            /\ UNCHANGED <<prompt, modelCalls, raised>>
       ELSE IF RequestError(req) # ""
       THEN /\ raised' = RequestError(req)
            /\ resp' = ChatExcept(RequestError(req))
            /\ pc' = "done"
            /\ UNCHANGED <<prompt, modelCalls>>
       ELSE /\ prompt' = BuildPrompt(req.message, req.context)
            /\ modelCalls' = modelCalls + 1
            /\ pc' = "llm"
            /\ UNCHANGED <<raised, resp>>
    /\ UNCHANGED <<configured, req, response_text, response_data, calls, collected,
                   visual_recommendations, enrichPc, outbound>>

\* line 384 or 386 raises: caught by the catch-all
ModelFails(exc) ==
    /\ pc = "llm"
    /\ raised' = exc
    /\ resp' = ChatExcept(exc)
    /\ pc' = "done"
    /\ UNCHANGED <<configured, req, prompt, modelCalls, response_text, response_data, calls,
                   collected, visual_recommendations, enrichPc, outbound>>

\* lines 386-397 fail: the model answered text that holds no JSON object
ModelReturnsMalformed ==
    /\ pc = "llm"
    /\ \E raw \in MalformedTexts :
          /\ response_text' = Strip(raw)
          /\ raised' = ExtractError(raw)
          /\ resp' = ChatExcept(ExtractError(raw))
    /\ pc' = "done"
    /\ UNCHANGED <<configured, req, prompt, modelCalls, response_data, calls, collected,
                   visual_recommendations, enrichPc, outbound>>

\* lines 386-408 with lines 161-164: the object parses and there is nothing to resolve
ModelReturnsNoNames ==
    /\ pc = "llm"
    /\ \E raw \in ParsingTexts, members \in Members :
          LET data == ExtractData(raw, members)
          IN  /\ EarlyReturn(data.recommended_movies)
              /\ response_text' = Strip(raw)
              /\ response_data' = data
              /\ resp' = Enriched(data, <<>>)
    /\ enrichPc' = "returned"
    /\ pc' = "done"
    /\ UNCHANGED <<configured, req, prompt, modelCalls, calls, collected,
                   visual_recommendations, raised, outbound>>

\* lines 386-404 with lines 161-169: the object parses and every name is submitted
ModelReturnsNames ==
    /\ pc = "llm"
    /\ \E raw \in ParsingTexts, members \in Members :
          LET data == ExtractData(raw, members)
          IN  /\ ~EarlyReturn(data.recommended_movies)
              /\ response_text' = Strip(raw)
              /\ response_data' = data
              /\ calls' = Submit(data.recommended_movies)
    /\ enrichPc' = "collecting"
    /\ pc' = "enrich"
    /\ UNCHANGED <<configured, req, prompt, modelCalls, collected, visual_recommendations,
                   raised, outbound, resp>>

\* a worker thread takes the oldest queued call; line 145 sends the GET
StartCall(i) ==
    /\ i \in Pending
    /\ \A j \in Pending : i <= j
    /\ WorkerFree
    /\ calls' = [calls EXCEPT ![i].st = "running", ![i].attempts = @ + 1]
    /\ outbound' = outbound + (IF SendsRequest(calls[i].name) THEN 1 ELSE 0)
    /\ UNCHANGED <<configured, req, pc, prompt, modelCalls, response_text, response_data,
                   collected, visual_recommendations, enrichPc, raised, resp>>

\* lines 145-159: the upstream answers (or the transport fails) and the call ends
CompleteCall(i, up) ==
    /\ i \in InFlight
    /\ calls[i].st = "running"
    /\ calls' = [calls EXCEPT ![i].st = "done",
                              ![i].result = _search_and_extract_movie(calls[i].name, up)]
    /\ UNCHANGED <<configured, req, pc, prompt, modelCalls, response_text, response_data,
                   collected, visual_recommendations, enrichPc, raised, outbound, resp>>

\* line 145 without a timeout: the upstream accepts the GET and never answers
Stall(i) ==
    /\ i \in InFlight
    /\ calls[i].st = "running"
    /\ SendsRequest(calls[i].name)
    /\ calls' = [calls EXCEPT ![i].st = "stalled"]
    /\ UNCHANGED <<configured, req, pc, prompt, modelCalls, response_text, response_data,
                   collected, visual_recommendations, enrichPc, raised, outbound, resp>>

\* lines 171-174: as_completed hands over a finished future
Collect(i) ==
    /\ enrichPc = "collecting"
    /\ i \in Done \ collected
    /\ collected' = collected \cup {i}
    /\ IF calls[i].result.kind = "raise"
       THEN /\ raised' = calls[i].result.exc
            /\ enrichPc' = "unwinding"
            /\ UNCHANGED visual_recommendations
       ELSE /\ visual_recommendations' =
                   IF Keep(calls[i].result)
                   THEN Append(visual_recommendations, calls[i].result)
                   ELSE visual_recommendations
            /\ UNCHANGED <<raised, enrichPc>>
    /\ UNCHANGED <<configured, req, pc, prompt, modelCalls, response_text, response_data,
                   calls, outbound, resp>>

\* lines 168-176 and 406-408: every future was handed over, the pool shuts down
EnrichReturns ==
    /\ enrichPc = "collecting"
    /\ collected = 1..Len(calls)
    /\ PoolDrained
    /\ enrichPc' = "returned"
    /\ resp' = Enriched(response_data, visual_recommendations)
    /\ pc' = "done"
    /\ UNCHANGED <<configured, req, prompt, modelCalls, response_text, response_data, calls,
                   collected, visual_recommendations, raised, outbound>>

\* lines 168-172 and 410-420: future.result() raised, the pool shuts down, chat catches
EnrichRaises ==
    /\ enrichPc = "unwinding"
    /\ PoolDrained
    /\ enrichPc' = "raised"
    /\ resp' = ChatExcept(raised)
    /\ pc' = "done"
    /\ UNCHANGED <<configured, req, prompt, modelCalls, response_text, response_data, calls,
                   collected, visual_recommendations, raised, outbound>>

\* the steps of one enrichment call
EnrichNext ==
    \/ \E i \in 1..Len(calls) : StartCall(i)
    \/ \E i \in 1..Len(calls) : \E up \in Upstreams(calls[i].name) : CompleteCall(i, up)
    \/ \E i \in 1..Len(calls) : Stall(i)
    \/ \E i \in 1..Len(calls) : Collect(i)
    \/ EnrichReturns
    \/ EnrichRaises

Next ==
    \/ ChatBegin
    \/ \E exc \in ModelErrors : ModelFails(exc)
    \/ ModelReturnsMalformed
    \/ ModelReturnsNoNames
    \/ ModelReturnsNames
    \/ EnrichNext

Spec == Init /\ [][Next]_vars

\* a /chat request at line 404, calling _fetch_visual_recommendations(names)
EnrichInit ==
    /\ configured = TRUE
    /\ req = [kind |-> "ok", message |-> "hi", context |-> ""]
    /\ pc = "enrich"
    /\ prompt = BuildPrompt("hi", "")
    /\ modelCalls = 1
    /\ response_text = <<"{", "b", "}">>
    /\ \E names \in EnrichLists :
          /\ response_data = [reply_to_user |-> "str", context |-> "str",
                              recommended_movies |-> JList(names)]
          /\ calls = Submit(JList(names))
    /\ collected = {}
    /\ visual_recommendations = <<>>
    /\ enrichPc = "collecting"
    /\ raised = ""
    /\ outbound = 0
    /\ resp = NoResp

EnrichSpec == EnrichInit /\ [][EnrichNext]_vars

\* worker threads and the request thread are scheduled whenever they can run
FairEnrichSpec == EnrichSpec /\ WF_vars(EnrichNext)

(* ------------------------------- claims -------------------------------- *)

\* C1: a resolver call never raises to its caller: every finished call holds
\* absent (None) or a MovieRef, whatever the upstream answered.
C1_ResolveNeverRaises ==
    \A i \in Done : calls[i].result.kind \in {"none", "ref"}

\* C2: a failing resolver call never escalates: the enrichment call never exits
\* with an exception, and a /chat request that submitted names answers 200
\* with the entries of the resolutions that succeeded.
C2_FanOutNeverEscalates ==
    /\ enrichPc \notin {"unwinding", "raised"}
    /\ (pc = "done" /\ calls # <<>>) =>
          /\ resp.status = 200
          /\ resp.kind = "enriched"
          /\ Len(resp.visual) = Cardinality({i \in 1..Len(calls) : calls[i].result.kind = "ref"})

\* number of positions of a sequence that hold x
Count(seq, x) == Cardinality({k \in 1..Len(seq) : seq[k] = x})

\* C3: the sequence enrich returns is, as a multiset, one MovieRef per
\* occurrence of a name whose resolution succeeded: no longer than names, every
\* entry a MovieRef with a non-empty identifier, absent results dropped,
\* repeated names not deduplicated.
C3_ReturnedIsSuccesses ==
    enrichPc = "returned" =>
        /\ Len(visual_recommendations) <= Len(response_data.recommended_movies.items)
        /\ \A k \in 1..Len(visual_recommendations) :
              /\ visual_recommendations[k].kind = "ref"
              /\ visual_recommendations[k].imdb_id # ""
        /\ Len(visual_recommendations) =
              Cardinality({i \in 1..Len(calls) : calls[i].result.kind = "ref"})
        /\ \A i \in 1..Len(calls) :
              calls[i].result.kind = "ref" =>
                  /\ calls[i].result.title = response_data.recommended_movies.items[i]
                  /\ Count(visual_recommendations, calls[i].result) =
                        Cardinality({j \in 1..Len(calls) : calls[j].result = calls[i].result})

\* C3 witness: a name that occurs twice resolved twice, and both entries are returned
C3_Witness ==
    /\ enrichPc = "returned"
    /\ Len(calls) = 2
    /\ calls[1].name = calls[2].name
    /\ Len(visual_recommendations) = 2

\* C4: at most 5 resolver calls are in flight at the same time, whatever the
\* length of names.
C4_AtMostFiveInFlight == Cardinality(InFlight) <= 5

\* C4 witness: more names than workers, five calls in flight and one still waiting
C4_Witness ==
    /\ Len(calls) > 5
    /\ Cardinality(InFlight) = 5
    /\ Pending # {}

\* C5: when recommended_movies is missing, empty or not a list, enrich returns
\* an empty sequence at once: no call is submitted, no search request is sent,
\* and /chat answers 200 with visual_recommendations = [].
C5_NoNamesNoCalls ==
    (/\ enrichPc # "none"
     /\ \/ response_data.recommended_movies.t # "list"
        \/ response_data.recommended_movies.items = <<>>)
    => /\ calls = <<>>
       /\ outbound = 0
       /\ pc = "done"
       /\ resp.status = 200
       /\ "visual_recommendations" \in BodyKeys(resp)
       /\ resp.visual = <<>>

\* C5 witness: recommended_movies was a non-empty string and the turn answered 200
C5_Witness ==
    /\ pc = "done"
    /\ response_data.recommended_movies = JStr(<<"A", "B">>)
    /\ resp.status = 200

\* the text lacks a delimiter, or first "{" to last "}" is not a JSON object
MalformedOutput(text) ==
    \/ \A i \in 1..Len(text) : text[i] # "{"
    \/ \A i \in 1..Len(text) : text[i] # "}"
    \/ ~JsonParses(Slice(text, Find(text, "{"), RFind(text, "}") + 1))

\* C6: malformed model output answers 200 with a body holding only the apology
\* reply_to_user and no resolver call; and the apology is answered only for
\* malformed model output, never after enrichment started.
C6_SoftFailureOnlyForMalformedOutput ==
    /\ (response_text # Unbound /\ MalformedOutput(response_text)) =>
          /\ pc = "done"
          /\ resp.status = 200
          /\ BodyKeys(resp) = {"reply_to_user"}
          /\ resp.msg = ApologyMsg
          /\ calls = <<>>
          /\ outbound = 0
    /\ resp.kind = "apology" =>
          /\ response_text # Unbound
          /\ MalformedOutput(response_text)
          /\ enrichPc = "none"

\* C6 witness: both delimiters are there, the text between them does not parse
C6_Witness ==
    /\ response_text = <<"{", "w", "}">>
    /\ resp.kind = "apology"

\* C7: every 200 response carries a context field holding a string.
C7_ContextAlwaysString ==
    resp.status = 200 =>
        /\ "context" \in BodyKeys(resp)
        /\ resp.data.context = "str"

\* C8: every resolver call ends, so a request that reached enrichment
\* eventually gets its response.
C8_EnrichmentEventuallyResponds == <>(pc = "done")

\* C9: /chat answers 500 exactly when the model client is unconfigured or an
\* exception other than malformed model output occurred; the body is {error:
\* message} with a message fixed by the branch alone; an unconfigured client
\* means no model call and no resolver call.
C9_ErrorExactlyOnFailure ==
    /\ pc = "done" =>
          (resp.status = 500 <=>
              (~configured \/ (raised # "" /\ raised # "JSONDecodeError")))
    /\ resp.status = 500 =>
          /\ BodyKeys(resp) = {"error"}
          /\ resp.msg = (IF configured THEN GenericMsg ELSE NotConfiguredMsg)
    /\ ~configured => (modelCalls = 0 /\ calls = <<>> /\ outbound = 0)

\* C9 witness: the model call failed and the route answered 500
C9_Witness ==
    /\ pc = "done"
    /\ raised \in ModelErrors
    /\ resp.status = 500

\* C10: when enrich returns or exits with an exception the pool is drained:
\* every name was submitted, every submitted call ran exactly once and has
\* completed, none is pending or in flight.
C10_PoolDrainedAtExit ==
    enrichPc \in {"returned", "raised"} =>
        /\ Len(calls) = Len(response_data.recommended_movies.items)
        /\ \A i \in 1..Len(calls) : calls[i].st = "done" /\ calls[i].attempts = 1
        /\ Pending = {}
        /\ InFlight = {}

\* C10 witness: enrich exited with an exception, and the calls it never
\* collected have completed all the same
C10_Witness ==
    /\ enrichPc = "raised"
    /\ Len(calls) > 5
    /\ collected # 1..Len(calls)

TypeOK ==
    /\ pc \in {"start", "llm", "enrich", "done"}
    /\ enrichPc \in {"none", "collecting", "unwinding", "returned", "raised"}
    /\ resp.status \in {0, 200, 500}

====
